---------------------------- MODULE Spec2Model ----------------------------
(***************************************************************************)
(* Model of sdp/processors/modify_manifest/common.py: the manifest entry   *)
(* processors CombineSources, AddConstantFields, DuplicateFields,          *)
(* RenameFields, SplitOnFixedDuration, ChangeToRelativePath, SortManifest, *)
(* KeepOnlySpecifiedFields and RemoveExtraSymbols.                         *)
(*                                                                         *)
(* A manifest entry (a Python dict) is a function from a finite set of     *)
(* field names to values.  Durations and offsets are exact fixed-point     *)
(* numbers counted in ticks of half a second (7.5 s = 15 ticks), so the    *)
(* arithmetic of the model is the exact arithmetic of the code without     *)
(* binary floating-point rounding.  A text is a sequence of one-character  *)
(* strings.                                                                *)
(***************************************************************************)
EXTENDS Integers, Sequences, FiniteSets, TLC

VARIABLES
    op,        \* the processor that was constructed
    cfg,       \* its constructor arguments (self.*)
    pc,        \* "idle", "done" (one call returned or raised), "done2", ...
    input,     \* the data_entry as it was handed to process_dataset_entry
    manifest,  \* the entries of input_manifest_file (whole-manifest processors)
    out,       \* the entries returned (DataEntry.data) or written to the output
    metrics,   \* the DataEntry.metrics reported, one per entry of out
    err,       \* the exception raised, [kind |-> "none"] if none
    pending,   \* parallel run: indexes of entries not yet processed
    inflight,  \* parallel run: results computed by workers, not yet collected
    total,     \* parallel run: the sum finalize logged
    doc,       \* CreateTokenizer: what document.txt holds, one element per write
    writers,   \* CreateTokenizer: open file objects writing document.txt
    files,     \* CreateTokenizer: the files glob(extra_corpus) matches, in its order
    fileno,    \* CreateTokenizer: the matched file being read
    pos,       \* CreateTokenizer: the next line of the file being read
    command    \* CreateTokenizer: the command handed to subprocess.run

tokvars == <<doc, writers, files, fileno, pos, command>>

vars == <<op, cfg, pc, input, manifest, out, metrics, err, pending, inflight, total,
          doc, writers, files, fileno, pos, command>>

-----------------------------------------------------------------------------
(* Bounds of the model *)

MaxSources == 3      \* length of CombineSources.sources
MaxPairs == 3        \* number of pairs of duplicate_fields / rename_fields
MaxDur == 15         \* largest entry duration, in ticks
MaxSeg == 6          \* largest segment_duration, in ticks
MaxTextLen == 2      \* longest text of an entry
MaxIgnore == 2       \* longest ignore_symbols string
MaxManifest == 3     \* most entries of a manifest
MaxPathLen == 2      \* most components of a path
MaxParallel == 3     \* most entries of a manifest processed in parallel
MaxTokEntries == 2   \* most entries of the manifest of CreateTokenizer
MaxFiles == 2        \* most files matched by extra_corpus

-----------------------------------------------------------------------------
(* Python dicts *)

EmptyEntry == <<>>

Has(e, f) == f \in DOMAIN e

Get(e, f, default) == IF f \in DOMAIN e THEN e[f] ELSE default

Put(e, f, v) == [g \in (DOMAIN e) \cup {f} |-> IF g = f THEN v ELSE e[g]]

Del(e, f) == [g \in (DOMAIN e) \ {f} |-> e[g]]

Update(e, d) == [g \in (DOMAIN e) \cup (DOMAIN d) |-> IF g \in DOMAIN d THEN d[g] ELSE e[g]]

SeqsUpTo(S, n) == UNION {[1..k -> S] : k \in 0..n}

NoError == [kind |-> "none"]

KeyError(f) == [kind |-> "KeyError", field |-> f]

ValueError(f, e) == [kind |-> "ValueError", field |-> f, entry |-> e]

Returned(entries, ms) == [out |-> entries, metrics |-> ms, err |-> NoError]

Raised(e) == [out |-> <<>>, metrics |-> <<>>, err |-> e]

-----------------------------------------------------------------------------
(* CombineSources *)

\* the for loop of process_dataset_entry: the index of the source it breaks
\* on, 0 when the loop runs to its else branch
\* mutant: the last available source wins
RECURSIVE LastAvailable(_, _, _, _)
LastAvailable(data_entry, sources, na_indicator, i) ==
    IF i > Len(sources) THEN 0
    ELSE LET later == LastAvailable(data_entry, sources, na_indicator, i + 1)
         IN IF later > 0 THEN later
            ELSE IF Get(data_entry, sources[i].field, na_indicator) /= na_indicator THEN i
            ELSE 0

RECURSIVE FirstAvailable(_, _, _, _)
FirstAvailable(data_entry, sources, na_indicator, i) ==
    IF i > Len(sources) THEN 0
    ELSE IF Get(data_entry, sources[i].field, na_indicator) /= na_indicator THEN i
    ELSE FirstAvailable(data_entry, sources, na_indicator, i + 1)

OriginField(target) == target \o "_origin"

CombineSources_process_dataset_entry(self, data_entry) ==
    LET k == FirstAvailable(data_entry, self.sources, self.na_indicator, 1)
        e == IF k > 0
             THEN Put(Put(data_entry, self.target, data_entry[self.sources[k].field]),
                      OriginField(self.target), self.sources[k].origin_label)
             ELSE Put(Put(data_entry, self.target, self.na_indicator),
                      OriginField(self.target), self.na_indicator)
    IN Returned(<<e>>, <<>>)

-----------------------------------------------------------------------------
(* AddConstantFields *)

AddConstantFields_process_dataset_entry(self, data_entry) ==
    Returned(<<Update(data_entry, self.fields)>>, <<>>)

-----------------------------------------------------------------------------
(* DuplicateFields and RenameFields.  A dict of pairs is iterated in         *)
(* insertion order: it is a sequence of [src, tgt] with distinct src.        *)

DuplicateStep(data_entry, field_src, field_tgt) ==
    Put(data_entry, field_tgt, data_entry[field_src])

\* mutant: a pair whose source is missing is skipped
RECURSIVE DuplicateLoopSkipping(_, _, _)
DuplicateLoopSkipping(data_entry, pairs, i) ==
    IF i > Len(pairs) THEN Returned(<<data_entry>>, <<>>)
    ELSE IF ~Has(data_entry, pairs[i].src)
         THEN DuplicateLoopSkipping(data_entry, pairs, i + 1)
         ELSE DuplicateLoopSkipping(Put(data_entry, pairs[i].tgt, data_entry[pairs[i].src]),
                                    pairs, i + 1)

RECURSIVE DuplicateLoop(_, _, _)
DuplicateLoop(data_entry, pairs, i) ==
    IF i > Len(pairs) THEN Returned(<<data_entry>>, <<>>)
    ELSE IF ~Has(data_entry, pairs[i].src)
         THEN Raised(ValueError(pairs[i].src, data_entry))
         ELSE DuplicateLoop(DuplicateStep(data_entry, pairs[i].src, pairs[i].tgt), pairs, i + 1)

DuplicateFields_process_dataset_entry(self, data_entry) ==
    DuplicateLoop(data_entry, self.duplicate_fields, 1)

\* mutant: the source is copied and never deleted
RenameStepKeepsSource(data_entry, field_src, field_tgt) ==
    Put(data_entry, field_tgt, data_entry[field_src])

RenameStep(data_entry, field_src, field_tgt) ==
    Del(Put(data_entry, field_tgt, data_entry[field_src]), field_src)

RECURSIVE RenameLoop(_, _, _)
RenameLoop(data_entry, pairs, i) ==
    IF i > Len(pairs) THEN Returned(<<data_entry>>, <<>>)
    ELSE IF ~Has(data_entry, pairs[i].src)
         THEN Raised(ValueError(pairs[i].src, data_entry))
         ELSE RenameLoop(RenameStep(data_entry, pairs[i].src, pairs[i].tgt), pairs, i + 1)

RenameFields_process_dataset_entry(self, data_entry) ==
    RenameLoop(data_entry, self.rename_fields, 1)

-----------------------------------------------------------------------------
(* SplitOnFixedDuration *)

\* mutant: rounds the number of segments up
TotalSegmentsRoundedUp(total_duration, segment_duration) ==
    (total_duration + segment_duration - 1) \div segment_duration

\* int(total_duration // self.segment_duration): Python's floor division
TotalSegments(total_duration, segment_duration) == total_duration \div segment_duration

\* mutant: offsets count from the end of the segment
SegmentOffsetOffByOne(segment_idx, segment_duration) == (segment_idx + 1) * segment_duration

SegmentOffset(segment_idx, segment_duration) == segment_idx * segment_duration

Remainder(total_duration, segment_duration, total_segments) ==
    total_duration - segment_duration * total_segments

\* mutant: an empty remainder is kept too
KeepsRemainderOrEmpty(drop_last, remainder) == (~drop_last) /\ remainder >= 0

KeepsRemainder(drop_last, remainder) == (~drop_last) /\ remainder > 0

\* mutant: the text is dropped whatever drop_text says
DropTextAlways(modified_entry, drop_text) == Del(modified_entry, "text")

\* modified_entry.pop("text", None) when drop_text
DropText(modified_entry, drop_text) ==
    IF drop_text THEN Del(modified_entry, "text") ELSE modified_entry

ModifiedEntry(data_entry, duration, offset, drop_text) ==
    DropText(Put(Put(data_entry, "duration", duration), "offset", offset), drop_text)

SplitOnFixedDuration_process_dataset_entry(self, data_entry) ==
    IF ~Has(data_entry, "duration") THEN Raised(KeyError("duration"))
    ELSE
    LET total_duration == data_entry["duration"]
        total_segments == TotalSegments(total_duration, self.segment_duration)
        \* [None] * n and range(n) are empty when n <= 0
        output == [idx1 \in 1..total_segments |->
                      ModifiedEntry(data_entry, self.segment_duration,
                                    SegmentOffset(idx1 - 1, self.segment_duration),
                                    self.drop_text)]
        remainder == Remainder(total_duration, self.segment_duration, total_segments)
    IN IF KeepsRemainder(self.drop_last, remainder)
       THEN Returned(Append(output,
                            ModifiedEntry(data_entry, remainder,
                                          self.segment_duration * total_segments,
                                          self.drop_text)), <<>>)
       ELSE Returned(output, <<>>)

-----------------------------------------------------------------------------
(* ChangeToRelativePath.  A path is the sequence of its components below    *)
(* the root; os.path.relpath walks up from base_dir to the common ancestor  *)
(* and down to the path, and gives "." for the directory itself.            *)

RECURSIVE CommonPrefixLen(_, _)
CommonPrefixLen(p, q) ==
    IF p = <<>> \/ q = <<>> THEN 0
    ELSE IF Head(p) /= Head(q) THEN 0
    ELSE 1 + CommonPrefixLen(Tail(p), Tail(q))

RelPath(path, start) ==
    LET i == CommonPrefixLen(path, start)
        rel == [k \in 1..(Len(start) - i) |-> ".."] \o SubSeq(path, i + 1, Len(path))
    IN IF rel = <<>> THEN <<".">> ELSE rel

ChangeToRelativePath_process_dataset_entry(self, data_entry) ==
    IF ~Has(data_entry, "audio_filepath") THEN Raised(KeyError("audio_filepath"))
    ELSE Returned(<<Put(data_entry, "audio_filepath",
                        RelPath(data_entry["audio_filepath"], self.base_dir))>>, <<>>)

-----------------------------------------------------------------------------
(* RemoveExtraSymbols.  The characters of the model: a letter with its      *)
(* upper-case form, the two punctuation marks the Armenian rule rewrites    *)
(* and the Armenian marks they become.                                      *)

Alphabet == {"a", "A", ".", ":", "arm_full_stop", "arm_colon"}

\* str.upper() of one character
Upper(x) == IF x = "a" THEN <<"A">> ELSE <<x>>

\* str.replace(old, new), old not empty: leftmost non-overlapping matches
RECURSIVE Replace(_, _, _)
Replace(text, old, new) ==
    IF Len(text) < Len(old) THEN text
    ELSE IF SubSeq(text, 1, Len(old)) = old
         THEN new \o Replace(SubSeq(text, Len(old) + 1, Len(text)), old, new)
         ELSE <<Head(text)>> \o Replace(Tail(text), old, new)

ArmenianRule(text) ==
    Replace(Replace(text, <<".">>, <<"arm_full_stop">>), <<":">>, <<"arm_colon">>)

RECURSIVE IgnoreLoop(_, _, _)
IgnoreLoop(text, ignore, i) ==
    IF i > Len(ignore) THEN text
    ELSE IgnoreLoop(Replace(Replace(text, <<ignore[i]>>, <<>>), Upper(ignore[i]), <<>>),
                    ignore, i + 1)

clear_text(text, ignore, lang) ==
    IgnoreLoop(IF lang = "armenian" THEN ArmenianRule(text) ELSE text, ignore, 1)

\* self.filter_text = partial(self.clear_text, ignore=ignore_symbols, lang=target_language)
filter_text(self, text) == clear_text(text, self.ignore_symbols, self.target_language)

NRemovedSymbols(original_text, cleaned_text) == Len(original_text) - Len(cleaned_text)

\* cleaned_text is only measured: the entry handed in is the entry returned
RemoveExtraSymbols_process_dataset_entry(self, data_entry) ==
    IF ~Has(data_entry, self.text_key) THEN Raised(KeyError(self.text_key))
    ELSE LET original_text == data_entry[self.text_key]
             cleaned_text == filter_text(self, original_text)
             n_removed_symbols == NRemovedSymbols(original_text, cleaned_text)
         IN Returned(<<data_entry>>, <<n_removed_symbols>>)

\* mutant: the first metric delivered is left out of the sum
RECURSIVE SumMetricsButFirst(_)
SumMetricsButFirst(ms) ==
    IF Len(ms) <= 1 THEN 0 ELSE ms[Len(ms)] + SumMetricsButFirst(SubSeq(ms, 1, Len(ms) - 1))

\* sum(metrics) of finalize
RECURSIVE SumMetrics(_)
SumMetrics(ms) == IF ms = <<>> THEN 0 ELSE Head(ms) + SumMetrics(Tail(ms))

-----------------------------------------------------------------------------
(* SortManifest and KeepOnlySpecifiedFields.  A manifest file is the        *)
(* sequence of the JSON objects of its lines.                               *)

\* mutant: an entry also goes before the entries with an equal key
BeforeOrEqual(x, y, descending) == IF descending THEN x >= y ELSE x <= y

\* x goes before y in sorted(..., reverse=descending)
Before(x, y, descending) == IF descending THEN x > y ELSE x < y

\* sorted() is stable, also with reverse=True: e is put behind every entry
\* that does not have to come after it
RECURSIVE InsertSorted(_, _, _, _)
InsertSorted(sorted, e, key, descending) ==
    IF sorted = <<>> THEN <<e>>
    ELSE IF Before(e[key], Head(sorted)[key], descending)
         THEN <<e>> \o sorted
         ELSE <<Head(sorted)>> \o InsertSorted(Tail(sorted), e, key, descending)

RECURSIVE SortedEntries(_, _, _, _)
SortedEntries(entries, key, descending, n) ==
    IF n = 0 THEN <<>>
    ELSE InsertSorted(SortedEntries(entries, key, descending, n - 1), entries[n], key, descending)

\* the key function raises on the first entry without the attribute, before
\* the output file is opened
SortManifest_process(self, dataset_entries) ==
    IF \E i \in 1..Len(dataset_entries) : ~Has(dataset_entries[i], self.attribute_sort_by)
    THEN Raised(KeyError(self.attribute_sort_by))
    ELSE Returned(SortedEntries(dataset_entries, self.attribute_sort_by, self.descending,
                                Len(dataset_entries)), <<>>)

RECURSIVE FirstMissing(_, _, _)
FirstMissing(line, fields, i) ==
    IF i > Len(fields) THEN 0
    ELSE IF ~Has(line, fields[i]) THEN i
    ELSE FirstMissing(line, fields, i + 1)

NewLine(line, fields_to_keep) ==
    [field \in {fields_to_keep[i] : i \in 1..Len(fields_to_keep)} |-> line[field]]

\* the lines before the offending one are already written when it raises
RECURSIVE KeepLoop(_, _, _, _)
KeepLoop(lines, fields_to_keep, i, written) ==
    IF i > Len(lines) THEN Returned(written, <<>>)
    ELSE LET k == FirstMissing(lines[i], fields_to_keep, 1)
         IN IF k > 0
            THEN [out |-> written, metrics |-> <<>>, err |-> KeyError(fields_to_keep[k])]
            ELSE KeepLoop(lines, fields_to_keep, i + 1,
                          Append(written, NewLine(lines[i], fields_to_keep)))

KeepOnlySpecifiedFields_process(self, lines) == KeepLoop(lines, self.fields_to_keep, 1, <<>>)

-----------------------------------------------------------------------------
(* The processors that can be constructed and the entries they are fed *)

StrFields == {"text_pc", "text_pc_pred", "text"}

StrVals == {"x", "y", "n/a"}

StrEntries == UNION {[D -> StrVals] : D \in SUBSET StrFields}

OriginLabel(field) ==
    IF field = "text_pc" THEN "original"
    ELSE IF field = "text_pc_pred" THEN "synthetic"
    ELSE IF field = "text" THEN "no_pc" ELSE "previous"

\* any field of the entry can be named as a source, also the one that holds
\* the origin of an earlier run
SourceFields == StrFields \cup {"text_origin"}

SourceDicts == {[field |-> f, origin_label |-> OriginLabel(f)] : f \in SourceFields}

CombineEntries == UNION {[D -> StrVals] : D \in SUBSET SourceFields}

CombineCfgs ==
    {[sources |-> s, target |-> t, na_indicator |-> "n/a"] :
        s \in SeqsUpTo(SourceDicts, MaxSources), t \in {"text", "text_pc"}}

ConstantCfgs ==
    {[fields |-> f] : f \in UNION {[D -> {"en", "x"}] : D \in SUBSET {"label", "text"}}}

FieldPairs == {[src |-> a, tgt |-> b] : a \in StrFields, b \in StrFields \cup {"text_no_pc"}}

\* the items of a dict: no key twice
PairSeqs ==
    {ps \in SeqsUpTo(FieldPairs, MaxPairs) :
        \A i \in 1..Len(ps) : \A j \in 1..Len(ps) : ps[i].src = ps[j].src => i = j}

DuplicateCfgs == {[duplicate_fields |-> ps] : ps \in PairSeqs}

RenameCfgs == {[rename_fields |-> ps] : ps \in PairSeqs}

SplitCfgs ==
    {[segment_duration |-> sd, drop_last |-> dl, drop_text |-> dt] :
        sd \in 1..MaxSeg, dl \in BOOLEAN, dt \in BOOLEAN}

WithField(e, present, f, v) == IF present THEN Put(e, f, v) ELSE e

SplitEntries ==
    {WithField(WithField(WithField(EmptyEntry, d >= 0, "duration", d),
                         t, "text", "x"), a, "audio_filepath", <<"d", "e">>) :
        d \in (-1)..MaxDur, t \in BOOLEAN, a \in BOOLEAN}

Paths == SeqsUpTo({"d", "e"}, MaxPathLen)

RelPathCfgs == {[base_dir |-> b] : b \in Paths}

PathEntries ==
    {WithField(WithField(EmptyEntry, p /= <<"none">>, "audio_filepath", p), t, "text", "x") :
        p \in Paths \cup {<<"none">>}, t \in BOOLEAN}

Texts == SeqsUpTo(Alphabet, MaxTextLen)

StripCfgs ==
    {[ignore_symbols |-> ig, target_language |-> l, text_key |-> "text"] :
        ig \in SeqsUpTo(Alphabet, MaxIgnore), l \in {"armenian", "english"}}

TextEntries ==
    {WithField([duration |-> 3], t /= <<"none">>, "text", t) : t \in Texts \cup {<<"none">>}}

SortCfgs == {[attribute_sort_by |-> "duration", descending |-> d] : d \in BOOLEAN}

KeepCfgs == {[fields_to_keep |-> f] : f \in SeqsUpTo({"duration", "id"}, 2)}

ManifestEntries ==
    {WithField([id |-> i], d > 0, "duration", d) : i \in {"u1", "u2"}, d \in 0..2}

Manifests == SeqsUpTo(ManifestEntries, MaxManifest)

-----------------------------------------------------------------------------
(* One processor, one call *)

\* no CreateTokenizer is running
NoTokenizer ==
    /\ doc = <<>>
    /\ writers = 0
    /\ files = <<>>
    /\ fileno = 0
    /\ pos = 0
    /\ command = <<>>

Constructed(name, cfgs) ==
    /\ NoTokenizer
    /\ op = name
    /\ cfg \in cfgs
    /\ pc = "idle"
    /\ input = EmptyEntry
    /\ manifest = <<>>
    /\ out = <<>>
    /\ metrics = <<>>
    /\ err = NoError
    /\ pending = {}
    /\ inflight = {}
    /\ total = 0

Init ==
    \/ Constructed("CombineSources", CombineCfgs)
    \/ Constructed("AddConstantFields", ConstantCfgs)
    \/ Constructed("DuplicateFields", DuplicateCfgs)
    \/ Constructed("RenameFields", RenameCfgs)
    \/ Constructed("SplitOnFixedDuration", SplitCfgs)
    \/ Constructed("ChangeToRelativePath", RelPathCfgs)
    \/ Constructed("RemoveExtraSymbols", StripCfgs)
    \/ Constructed("SortManifest", SortCfgs)
    \/ Constructed("KeepOnlySpecifiedFields", KeepCfgs)

\* process_dataset_entry(data_entry) returns or raises
Call(data_entry, r) ==
    /\ input' = data_entry
    /\ out' = r.out
    /\ metrics' = r.metrics
    /\ err' = r.err
    /\ pc' = "done"
    /\ UNCHANGED <<op, cfg, manifest, pending, inflight, total>>
    /\ UNCHANGED tokvars

\* process() reads the input manifest and writes the output manifest
Run(dataset_entries, r) ==
    /\ manifest' = dataset_entries
    /\ out' = r.out
    /\ metrics' = r.metrics
    /\ err' = r.err
    /\ pc' = "done"
    /\ UNCHANGED <<op, cfg, input, pending, inflight, total>>
    /\ UNCHANGED tokvars

ProcessCombineSources ==
    /\ pc = "idle" /\ op = "CombineSources"
    /\ \E e \in CombineEntries : Call(e, CombineSources_process_dataset_entry(cfg, e))

\* the same processor run again, on the entry the first run returned
ReprocessCombineSources ==
    /\ pc = "done" /\ op = "CombineSources" /\ err = NoError
    /\ LET r == CombineSources_process_dataset_entry(cfg, out[1])
       IN /\ out' = out \o r.out
          /\ metrics' = metrics \o r.metrics
          /\ err' = r.err
    /\ pc' = "done2"
    /\ UNCHANGED <<op, cfg, input, manifest, pending, inflight, total>>
    /\ UNCHANGED tokvars

ProcessAddConstantFields ==
    /\ pc = "idle" /\ op = "AddConstantFields"
    /\ \E e \in StrEntries : Call(e, AddConstantFields_process_dataset_entry(cfg, e))

ProcessDuplicateFields ==
    /\ pc = "idle" /\ op = "DuplicateFields"
    /\ \E e \in StrEntries : Call(e, DuplicateFields_process_dataset_entry(cfg, e))

ProcessRenameFields ==
    /\ pc = "idle" /\ op = "RenameFields"
    /\ \E e \in StrEntries : Call(e, RenameFields_process_dataset_entry(cfg, e))

ProcessSplitOnFixedDuration ==
    /\ pc = "idle" /\ op = "SplitOnFixedDuration"
    /\ \E e \in SplitEntries : Call(e, SplitOnFixedDuration_process_dataset_entry(cfg, e))

ProcessChangeToRelativePath ==
    /\ pc = "idle" /\ op = "ChangeToRelativePath"
    /\ \E e \in PathEntries : Call(e, ChangeToRelativePath_process_dataset_entry(cfg, e))

ProcessRemoveExtraSymbols ==
    /\ pc = "idle" /\ op = "RemoveExtraSymbols"
    /\ \E e \in TextEntries : Call(e, RemoveExtraSymbols_process_dataset_entry(cfg, e))

\* the same processor run again, on the manifest the first run produced
ReprocessRemoveExtraSymbols ==
    /\ pc = "done" /\ op = "RemoveExtraSymbols" /\ err = NoError
    /\ LET r == RemoveExtraSymbols_process_dataset_entry(cfg, out[1])
       IN /\ out' = out \o r.out
          /\ metrics' = metrics \o r.metrics
          /\ err' = r.err
    /\ pc' = "done2"
    /\ UNCHANGED <<op, cfg, input, manifest, pending, inflight, total>>
    /\ UNCHANGED tokvars

ProcessSortManifest ==
    /\ pc = "idle" /\ op = "SortManifest"
    /\ \E m \in Manifests : Run(m, SortManifest_process(cfg, m))

ProcessKeepOnlySpecifiedFields ==
    /\ pc = "idle" /\ op = "KeepOnlySpecifiedFields"
    /\ \E m \in Manifests : Run(m, KeepOnlySpecifiedFields_process(cfg, m))

Next ==
    \/ ProcessCombineSources
    \/ ReprocessCombineSources
    \/ ProcessAddConstantFields
    \/ ProcessDuplicateFields
    \/ ProcessRenameFields
    \/ ProcessSplitOnFixedDuration
    \/ ProcessChangeToRelativePath
    \/ ProcessRemoveExtraSymbols
    \/ ReprocessRemoveExtraSymbols
    \/ ProcessSortManifest
    \/ ProcessKeepOnlySpecifiedFields

Spec == Init /\ [][Next]_vars

-----------------------------------------------------------------------------
(* Claims about SplitOnFixedDuration *)

SplitReturned ==
    pc = "done" /\ op = "SplitOnFixedDuration" /\ err.kind = "none"

\* <<duration, offset>> of every emitted segment, in order
Spans == [i \in 1..Len(out) |-> <<out[i]["duration"], out[i]["offset"]>>]

\* floor(D / S) for D >= 0 and S > 0, by its defining inequality
Floor(D, S) == CHOOSE n \in 0..D : n * S <= D /\ D < (n + 1) * S

ExpectedSpans(D, S, drop_last) ==
    LET n == Floor(D, S)
        main == [i \in 1..n |-> <<S, (i - 1) * S>>]
    IN IF (~drop_last) /\ D - S * n > 0 THEN main \o <<(<<D - S * n, S * n>>)>> ELSE main

\* C1: for duration D >= 0 and segment_duration S > 0 the segments returned are
\* exactly floor(D/S) segments of duration S at offsets 0, S, 2S, ... followed
\* by one segment of duration D - S*n at offset S*n iff drop_last is false and
\* D - S*n > 0
C1_SplitSequence ==
    SplitReturned =>
        Spans = ExpectedSpans(input["duration"], cfg.segment_duration, cfg.drop_last)

\* 7.5 s cut in segments of 3 s, the remainder kept: 3, 3, 1.5 at 0, 3, 6
C1_Witness ==
    /\ SplitReturned
    /\ input["duration"] = 15 /\ cfg.segment_duration = 6 /\ ~cfg.drop_last
    /\ Spans = << <<6, 0>>, <<6, 6>>, <<3, 12>> >>

RECURSIVE SumDurations(_)
SumDurations(segments) ==
    IF segments = <<>> THEN 0 ELSE Head(segments)["duration"] + SumDurations(Tail(segments))

\* C2: the durations of the segments add up to the duration (drop_last false)
\* or to the duration without the remainder (drop_last true); offsets are
\* non-negative and strictly increasing; every segment duration is > 0 and at
\* most segment_duration
C2_SplitInvariants ==
    SplitReturned =>
        LET D == input["duration"]
            S == cfg.segment_duration
        IN /\ SumDurations(out) = IF cfg.drop_last THEN D - (D % S) ELSE D
           /\ \A i \in 1..Len(out) : out[i]["offset"] >= 0
           /\ \A i \in 1..Len(out) : \A j \in 1..Len(out) :
                  i < j => out[i]["offset"] < out[j]["offset"]
           /\ \A i \in 1..Len(out) : out[i]["duration"] > 0 /\ out[i]["duration"] <= S

C2_Witness ==
    /\ SplitReturned
    /\ ~cfg.drop_last
    /\ input["duration"] % cfg.segment_duration > 0
    /\ Len(out) >= 3

\* C3 as stated: an entry shorter than segment_duration gives no full-length
\* segment and, if drop_last is false, exactly one segment with the whole
\* duration at offset 0; nothing if drop_last is true
C3_ShortEntryAsStated ==
    (SplitReturned /\ input["duration"] < cfg.segment_duration) =>
        IF cfg.drop_last THEN out = <<>>
        ELSE Len(out) = 1 /\ out[1]["duration"] = input["duration"] /\ out[1]["offset"] = 0

\* C3 amended: an entry shorter than segment_duration gives no full-length
\* segment; if drop_last is false and the duration is > 0 it gives exactly one
\* segment with the whole duration at offset 0; if drop_last is true or the
\* duration is 0 it gives nothing
C3_ShortEntry ==
    (SplitReturned /\ input["duration"] < cfg.segment_duration) =>
        IF cfg.drop_last \/ input["duration"] = 0 THEN Len(out) = 0
        ELSE Len(out) = 1 /\ out[1]["duration"] = input["duration"] /\ out[1]["offset"] = 0

C3_Witness ==
    /\ SplitReturned
    /\ input["duration"] > 0 /\ input["duration"] < cfg.segment_duration
    /\ ~cfg.drop_last
    /\ Len(out) = 1 /\ out[1]["duration"] = input["duration"]

-----------------------------------------------------------------------------
(* Claims about CombineSources *)

CombineReturned ==
    pc = "done" /\ op = "CombineSources" /\ err.kind = "none"

\* the i-th source is present in the entry handed in and is not the sentinel
Qualifies(i) ==
    /\ cfg.sources[i].field \in DOMAIN input
    /\ input[cfg.sources[i].field] /= cfg.na_indicator

\* C4: target and <target>_origin are always written: from the first source, in
\* declared order, that is present and differs from the sentinel (its value and
\* its origin_label), or both with the sentinel if no source qualifies
C4_CombineFirstMatch ==
    CombineReturned =>
        /\ Len(out) = 1
        /\ cfg.target \in DOMAIN out[1]
        /\ (cfg.target \o "_origin") \in DOMAIN out[1]
        /\ IF \E i \in 1..Len(cfg.sources) : Qualifies(i)
           THEN LET k == CHOOSE i \in 1..Len(cfg.sources) :
                             Qualifies(i) /\ \A j \in 1..(i - 1) : ~Qualifies(j)
                IN /\ out[1][cfg.target] = input[cfg.sources[k].field]
                   /\ out[1][cfg.target \o "_origin"] = cfg.sources[k].origin_label
           ELSE /\ out[1][cfg.target] = cfg.na_indicator
                /\ out[1][cfg.target \o "_origin"] = cfg.na_indicator

\* the first source holds the sentinel, the second and the third both qualify
\* with different values: the second one is taken
C4_Witness ==
    /\ CombineReturned
    /\ Len(cfg.sources) = 3
    /\ ~Qualifies(1) /\ cfg.sources[1].field \in DOMAIN input
    /\ Qualifies(2) /\ Qualifies(3)
    /\ cfg.sources[2].field /= cfg.target
    /\ input[cfg.sources[2].field] /= input[cfg.sources[3].field]
    /\ out[1][cfg.target] = input[cfg.sources[2].field]
    /\ out[1][cfg.target \o "_origin"] = cfg.sources[2].origin_label

-----------------------------------------------------------------------------
(* Claims about DuplicateFields and RenameFields *)

PairsDone == pc = "done" /\ op \in {"DuplicateFields", "RenameFields"}

Pairs == IF op = "DuplicateFields" THEN cfg.duplicate_fields ELSE cfg.rename_fields

\* C5 as stated: whatever the mapping (its sources present in the entry), every
\* target ends with the value its source had in the entry handed in, and after
\* RenameFields no source is left
C5_AnyMappingAsStated ==
    (PairsDone /\ \A i \in 1..Len(Pairs) : Pairs[i].src \in DOMAIN input) =>
        /\ err.kind = "none"
        /\ Len(out) = 1
        /\ \A i \in 1..Len(Pairs) :
              /\ Pairs[i].tgt \in DOMAIN out[1]
              /\ out[1][Pairs[i].tgt] = input[Pairs[i].src]
        /\ op = "RenameFields" =>
              \A i \in 1..Len(Pairs) : Pairs[i].src \notin DOMAIN out[1]

\* the pairs are processed one after the other on the same dict: a pair reads
\* what earlier pairs wrote and a later pair overwrites or deletes what it wrote
DistinctTargets ==
    \A i \in 1..Len(Pairs) : \A j \in 1..Len(Pairs) : Pairs[i].tgt = Pairs[j].tgt => i = j

NoTargetIsASource ==
    \A i \in 1..Len(Pairs) : \A j \in 1..Len(Pairs) : Pairs[i].tgt /= Pairs[j].src

NoTargetIsALaterSource ==
    \A i \in 1..Len(Pairs) : \A j \in 1..Len(Pairs) : i < j => Pairs[i].tgt /= Pairs[j].src

Independent ==
    /\ DistinctTargets
    /\ IF op = "RenameFields" THEN NoTargetIsASource ELSE NoTargetIsALaterSource

\* C5 amended: for mappings whose sources are present and whose targets are
\* pairwise distinct, where for RenameFields no target is a configured source
\* and for DuplicateFields no target is the source of a later pair, every
\* target ends with the value its source had in the entry handed in, and after
\* RenameFields no source is left
C5_TargetsHoldOriginalSources ==
    (PairsDone /\ Independent /\ \A i \in 1..Len(Pairs) : Pairs[i].src \in DOMAIN input) =>
        /\ err.kind = "none"
        /\ Len(out) = 1
        /\ \A i \in 1..Len(Pairs) :
              /\ Pairs[i].tgt \in DOMAIN out[1]
              /\ out[1][Pairs[i].tgt] = input[Pairs[i].src]
        /\ op = "RenameFields" =>
              \A i \in 1..Len(Pairs) : Pairs[i].src \notin DOMAIN out[1]

C5_Witness ==
    /\ PairsDone /\ op = "RenameFields" /\ Independent
    /\ Len(Pairs) = 2
    /\ \A i \in 1..Len(Pairs) : Pairs[i].src \in DOMAIN input
    /\ input[Pairs[1].src] /= input[Pairs[2].src]
    /\ Pairs[1].tgt \in DOMAIN input
    /\ err.kind = "none"
    /\ out[1][Pairs[1].tgt] = input[Pairs[1].src]
    /\ out[1][Pairs[2].tgt] = input[Pairs[2].src]

-----------------------------------------------------------------------------
(* Claims about RemoveExtraSymbols *)

StripReturned ==
    pc = "done" /\ op = "RemoveExtraSymbols" /\ err.kind = "none"

\* no ignore symbol, nor its upper-case variant, occurs in the text
Stripped(text, ignore) ==
    \A i \in 1..Len(text) : \A j \in 1..Len(ignore) :
        text[i] /= ignore[j] /\ <<text[i]>> /= Upper(ignore[j])

\* C6: the text field of the emitted entry is the cleaned text: the language
\* rule applied, then free of every ignore symbol and its upper-case variant
C6_EmittedTextIsCleaned ==
    StripReturned =>
        /\ out[1][cfg.text_key] = clear_text(input[cfg.text_key], cfg.ignore_symbols,
                                             cfg.target_language)
        /\ Stripped(out[1][cfg.text_key], cfg.ignore_symbols)
        /\ cfg.target_language = "armenian" =>
              \A i \in 1..Len(out[1][cfg.text_key]) :
                  out[1][cfg.text_key][i] \notin {".", ":"}

\* C7: the second pass over the entry the first pass emitted leaves it as it is
\* and reports 0 removed symbols
C7_SecondPassRemovesNothing ==
    (pc = "done2" /\ op = "RemoveExtraSymbols" /\ err.kind = "none") =>
        /\ out[2] = out[1]
        /\ metrics[2] = 0

-----------------------------------------------------------------------------
(* Claims about missing fields *)

\* C8 as stated: a source field, the sort key or a field to keep that is absent from an
\* entry makes the processor fail instead of skipping the pair or writing the
\* entry without the field; the ValueError of DuplicateFields and RenameFields
\* names the missing field and carries the entry
C8_MissingFieldFailsAsStated ==
    pc = "done" =>
        /\ (op \in {"DuplicateFields", "RenameFields"}
              /\ \E i \in 1..Len(Pairs) : Pairs[i].src \notin DOMAIN input) =>
                 /\ err.kind = "ValueError"
                 /\ out = <<>>
                 /\ \E i \in 1..Len(Pairs) : err.field = Pairs[i].src
                 /\ err.field \notin DOMAIN err.entry
        /\ (op = "SortManifest"
              /\ \E i \in 1..Len(manifest) : cfg.attribute_sort_by \notin DOMAIN manifest[i]) =>
                 /\ err = KeyError(cfg.attribute_sort_by)
                 /\ out = <<>>
        /\ (op = "KeepOnlySpecifiedFields"
              /\ \E i \in 1..Len(manifest) : \E k \in 1..Len(cfg.fields_to_keep) :
                     cfg.fields_to_keep[k] \notin DOMAIN manifest[i]) =>
                 /\ err.kind = "KeyError"
                 /\ \E i \in 1..Len(manifest) : err.field \notin DOMAIN manifest[i]
                 /\ Len(out) < Len(manifest)
                 /\ \A i \in 1..Len(out) : \A k \in 1..Len(cfg.fields_to_keep) :
                        cfg.fields_to_keep[k] \in DOMAIN out[i]

\* the source of pair i is in the dict when the loop reaches the pair iff it
\* was in the entry handed in or an earlier pair wrote it as its target
MissingAt(i) ==
    /\ Pairs[i].src \notin DOMAIN input
    /\ \A j \in 1..(i - 1) : Pairs[j].tgt /= Pairs[i].src

\* the fields the pairs before pair k read, write or delete
TouchedBefore(k) == UNION {{Pairs[j].src, Pairs[j].tgt} : j \in 1..(k - 1)}

\* C8 amended: a source field that is absent from the entry and is not the
\* target of an earlier pair, the sort key or a field to keep that is absent
\* from an entry makes the processor fail instead of skipping the pair or
\* writing the entry without the field; the ValueError of DuplicateFields and
\* RenameFields names the first such field and carries the entry as the earlier
\* pairs left it
C8_MissingFieldFails ==
    pc = "done" =>
        /\ (op \in {"DuplicateFields", "RenameFields"}
              /\ \E i \in 1..Len(Pairs) : MissingAt(i)) =>
                 LET k == CHOOSE i \in 1..Len(Pairs) :
                              MissingAt(i) /\ \A j \in 1..(i - 1) : ~MissingAt(j)
                 IN /\ err.kind = "ValueError"
                    /\ out = <<>>
                    /\ err.field = Pairs[k].src
                    /\ err.field \notin DOMAIN err.entry
                    /\ \A f \in (DOMAIN input \cup DOMAIN err.entry) \ TouchedBefore(k) :
                           /\ f \in DOMAIN input /\ f \in DOMAIN err.entry
                           /\ err.entry[f] = input[f]
        /\ (op = "SortManifest"
              /\ \E i \in 1..Len(manifest) : cfg.attribute_sort_by \notin DOMAIN manifest[i]) =>
                 /\ err = KeyError(cfg.attribute_sort_by)
                 /\ out = <<>>
        /\ (op = "KeepOnlySpecifiedFields"
              /\ \E i \in 1..Len(manifest) : \E k \in 1..Len(cfg.fields_to_keep) :
                     cfg.fields_to_keep[k] \notin DOMAIN manifest[i]) =>
                 /\ err.kind = "KeyError"
                 /\ \E i \in 1..Len(manifest) : err.field \notin DOMAIN manifest[i]
                 /\ Len(out) < Len(manifest)
                 /\ \A i \in 1..Len(out) : \A k \in 1..Len(cfg.fields_to_keep) :
                        cfg.fields_to_keep[k] \in DOMAIN out[i]

\* the second pair of a DuplicateFields lacks its source after the first pair
\* has already written its target
C8_Witness ==
    /\ pc = "done" /\ op = "DuplicateFields"
    /\ Len(Pairs) = 2
    /\ ~MissingAt(1) /\ MissingAt(2)
    /\ Pairs[1].tgt \notin DOMAIN input
    /\ err.kind = "ValueError" /\ err.field = Pairs[2].src
    /\ Pairs[1].tgt \in DOMAIN err.entry
    /\ out = <<>>

-----------------------------------------------------------------------------
(* Frame of the per-entry processors *)

\* outside the fields named, r has the fields of e with the values of e
SameExcept(r, e, altered) ==
    \A f \in (DOMAIN e \cup DOMAIN r) \ altered :
        f \in DOMAIN e /\ f \in DOMAIN r /\ r[f] = e[f]

AlteredFields ==
    IF op = "CombineSources" THEN {cfg.target, cfg.target \o "_origin"}
    ELSE IF op = "AddConstantFields" THEN DOMAIN cfg.fields
    ELSE IF op = "DuplicateFields" THEN {Pairs[i].tgt : i \in 1..Len(Pairs)}
    ELSE IF op = "RenameFields" THEN UNION {{Pairs[i].src, Pairs[i].tgt} : i \in 1..Len(Pairs)}
    ELSE IF op = "ChangeToRelativePath" THEN {"audio_filepath"}
    ELSE IF op = "RemoveExtraSymbols" THEN {cfg.text_key}
    ELSE {"duration", "offset", "text"}

PerEntryOps ==
    {"CombineSources", "AddConstantFields", "DuplicateFields", "RenameFields",
     "ChangeToRelativePath", "RemoveExtraSymbols", "SplitOnFixedDuration"}

\* C10: every entry a per-entry processor returns has, outside the fields the
\* processor alters, renames or drops, exactly the fields and values of the
\* entry handed in; a segment of SplitOnFixedDuration has no text if drop_text
\* is true and the text of its parent (if it had one) otherwise
C10_Frame ==
    (pc \in {"done", "done2"} /\ op \in PerEntryOps /\ err.kind = "none") =>
        /\ op /= "SplitOnFixedDuration" => Len(out) >= 1
        /\ \A i \in 1..Len(out) : SameExcept(out[i], input, AlteredFields)
        /\ op = "SplitOnFixedDuration" =>
              \A i \in 1..Len(out) :
                  IF cfg.drop_text THEN "text" \notin DOMAIN out[i]
                  ELSE /\ "text" \in DOMAIN out[i] <=> "text" \in DOMAIN input
                       /\ "text" \in DOMAIN input => out[i]["text"] = input["text"]

\* a parent with a text and a path, cut with drop_text false in full segments
\* and a remainder
C10_Witness ==
    /\ pc = "done" /\ op = "SplitOnFixedDuration" /\ err.kind = "none"
    /\ ~cfg.drop_text /\ ~cfg.drop_last
    /\ "text" \in DOMAIN input /\ "audio_filepath" \in DOMAIN input
    /\ Len(out) >= 2
    /\ out[Len(out)]["duration"] < cfg.segment_duration
    /\ out[Len(out)]["text"] = input["text"]
    /\ out[1]["audio_filepath"] = input["audio_filepath"]

-----------------------------------------------------------------------------
(* RemoveExtraSymbols under the parallel runtime.  The runtime hands every  *)
(* entry of the manifest to some worker, collects the DataEntry results in  *)
(* the order they arrive and calls finalize(metrics) after the last one.    *)

ParTexts == {<<".">>, <<"a", ".">>, <<"A", "a", ":">>}

ParEntries == {[duration |-> 3]} \cup {[duration |-> 3, text |-> t] : t \in ParTexts}

ParCfgs ==
    {[ignore_symbols |-> ig, target_language |-> l, text_key |-> "text"] :
        ig \in {<<"a">>, <<".", "a">>, <<":">>}, l \in {"armenian", "english"}}

InitPar ==
    /\ NoTokenizer
    /\ op = "RemoveExtraSymbols"
    /\ cfg \in ParCfgs
    /\ manifest \in SeqsUpTo(ParEntries, MaxParallel)
    /\ pending = 1..Len(manifest)
    /\ pc = "running"
    /\ input = EmptyEntry
    /\ out = <<>>
    /\ metrics = <<>>
    /\ err = NoError
    /\ inflight = {}
    /\ total = 0

\* a worker runs process_dataset_entry on one entry; an exception ends the run
WorkerProcess ==
    /\ pc = "running"
    /\ \E i \in pending :
          LET r == RemoveExtraSymbols_process_dataset_entry(cfg, manifest[i])
          IN IF r.err.kind = "none"
             THEN /\ inflight' = inflight \cup
                        {[idx |-> i, data |-> r.out[1], metrics |-> r.metrics[1]]}
                  /\ pending' = pending \ {i}
                  /\ UNCHANGED <<pc, err>>
             ELSE /\ pc' = "aborted"
                  /\ err' = r.err
                  /\ UNCHANGED <<pending, inflight>>
    /\ UNCHANGED <<op, cfg, input, manifest, out, metrics, total>>
    /\ UNCHANGED tokvars

\* the runtime takes one finished result, whichever arrived
Collect ==
    /\ pc = "running"
    /\ \E m \in inflight :
          /\ inflight' = inflight \ {m}
          /\ out' = Append(out, m.data)
          /\ metrics' = Append(metrics, m.metrics)
    /\ UNCHANGED <<op, cfg, pc, input, manifest, err, pending, total>>
    /\ UNCHANGED tokvars

\* finalize(metrics), once every entry is processed and collected
Finalize ==
    /\ pc = "running"
    /\ pending = {} /\ inflight = {}
    /\ total' = SumMetrics(metrics)
    /\ pc' = "finalized"
    /\ UNCHANGED <<op, cfg, input, manifest, out, metrics, err, pending, inflight>>
    /\ UNCHANGED tokvars

NextPar ==
    \/ WorkerProcess
    \/ Collect
    \/ Finalize

SpecPar == InitPar /\ [][NextPar]_vars

\* len(original text) - len(cleaned text) of the i-th entry of the manifest
RemovedFrom(i) ==
    Len(manifest[i]["text"])
        - Len(clear_text(manifest[i]["text"], cfg.ignore_symbols, cfg.target_language))

RECURSIVE RemovedUpTo(_)
RemovedUpTo(n) == IF n = 0 THEN 0 ELSE RemovedUpTo(n - 1) + RemovedFrom(n)

\* C9: whatever the order in which entries are processed and their metrics
\* arrive, the total of finalize is the sum over all entries of
\* len(original text) - len(cleaned text); it is computed when every entry is
\* processed and collected, and the result of an entry depends on that entry
\* alone
C9_TotalIsOrderIndependent ==
    /\ \A m \in inflight : m.metrics = RemovedFrom(m.idx) /\ m.data = manifest[m.idx]
    /\ pc = "finalized" =>
          /\ pending = {} /\ inflight = {}
          /\ Len(metrics) = Len(manifest)
          /\ total = RemovedUpTo(Len(manifest))

\* the metrics arrived in another order than the manifest's
C9_Witness ==
    /\ pc = "finalized"
    /\ Len(manifest) = 3
    /\ out[1] = manifest[3] /\ out[3] = manifest[1]
    /\ metrics[1] /= metrics[3] /\ metrics[1] /= metrics[2]
    /\ total > 0

-----------------------------------------------------------------------------
(* CombineSources applied twice *)

CombineReturnedTwice ==
    pc = "done2" /\ op = "CombineSources" /\ err.kind = "none"

\* the source the first run took: the first that qualifies in the entry handed in
Selected ==
    CHOOSE i \in 1..Len(cfg.sources) : Qualifies(i) /\ \A j \in 1..(i - 1) : ~Qualifies(j)

\* C11 as stated: whenever the first run took a qualifying source, the second
\* run on the entry it returned changes no field (stated here for the
\* configurations in which no source is the <target>_origin field)
C11_ReapplicationAsStated ==
    (/\ CombineReturnedTwice
     /\ \E i \in 1..Len(cfg.sources) : Qualifies(i)
     /\ \A i \in 1..Len(cfg.sources) : cfg.sources[i].field /= cfg.target \o "_origin") =>
        out[2] = out[1]

\* the first run writes target and <target>_origin: a source on one of these
\* two fields that the loop reaches in the second run sees what the first run
\* wrote
TargetNotReached ==
    /\ \A j \in 1..(Selected - 1) :
           cfg.sources[j].field \notin {cfg.target, cfg.target \o "_origin"}
    /\ cfg.sources[Selected].field /= cfg.target \o "_origin"

\* C11 amended: when the first run took a qualifying source, no source before
\* it in the preference order is the target field or the <target>_origin field
\* and the source taken is not the <target>_origin field, the second run on
\* the entry it returned changes no field
C11_Reapplication ==
    (CombineReturnedTwice /\ (\E i \in 1..Len(cfg.sources) : Qualifies(i)) /\ TargetNotReached) =>
        out[2] = out[1]

\* the target is itself the last source, as in the class docstring, and an
\* earlier source was taken
C11_Witness ==
    /\ CombineReturnedTwice
    /\ Len(cfg.sources) = 3
    /\ cfg.sources[3].field = cfg.target
    /\ ~Qualifies(1) /\ Qualifies(2) /\ TargetNotReached
    /\ cfg.target \in DOMAIN input
    /\ input[cfg.target] /= input[cfg.sources[2].field]
    /\ out[1][cfg.target] = input[cfg.sources[2].field]
    /\ out[2] = out[1]

-----------------------------------------------------------------------------
(* Claims about SortManifest *)

SortRan == pc = "done" /\ op = "SortManifest"

AllHaveKey == \A i \in 1..Len(manifest) : cfg.attribute_sort_by \in DOMAIN manifest[i]

IndexPermutations(n) == {p \in [1..n -> 1..n] : \A i \in 1..n : \A j \in 1..n : p[i] = p[j] => i = j}

\* C12: when every entry has the sort key, the sequence written is a
\* permutation of the sequence read, non-increasing in the key when descending
\* is true and non-decreasing when it is false, and entries with equal keys
\* keep the order they had in the input, in both directions
C12_SortStablePermutation ==
    (SortRan /\ AllHaveKey) =>
        /\ err.kind = "none"
        /\ Len(out) = Len(manifest)
        /\ \E p \in IndexPermutations(Len(manifest)) :
              /\ \A i \in 1..Len(out) : out[i] = manifest[p[i]]
              /\ \A i \in 1..Len(out) : \A j \in 1..Len(out) :
                    i < j =>
                       LET ki == out[i][cfg.attribute_sort_by]
                           kj == out[j][cfg.attribute_sort_by]
                       IN /\ IF cfg.descending THEN ki >= kj ELSE ki <= kj
                          /\ ki = kj => p[i] < p[j]

\* a descending sort that moves an entry to the front and leaves two different
\* entries with the same key in their input order
C12_Witness ==
    /\ SortRan /\ AllHaveKey /\ cfg.descending
    /\ Len(manifest) = 3
    /\ manifest[1]["duration"] = manifest[3]["duration"]
    /\ manifest[1] /= manifest[3]
    /\ manifest[2]["duration"] > manifest[1]["duration"]
    /\ out = <<manifest[2], manifest[1], manifest[3]>>

-----------------------------------------------------------------------------
(* CreateTokenizer.  process() calls get_command_to_run(), which writes the *)
(* corpus, and hands the command it returns to subprocess.run.  A line of a *)
(* text file is the sequence of its characters, the "\n" that ends it        *)
(* included.                                                                *)

\* __init__: a nemo_executable that does not exist is replaced
NemoExecutable(nemo_executable, exists) ==
    IF exists THEN nemo_executable ELSE "sys.executable"

ScriptPath(nemo_repo_path) ==
    <<nemo_repo_path, "scripts/tokenizers/process_asr_text_tokenizer.py">>

DocumentPath(data_folder) == <<data_folder, "text_corpus", "document.txt">>

TokCfgs ==
    {[data_folder |-> "data", nemo_repo_path |-> "NeMo", vocab_size |-> 128,
      extra_corpus |-> ec, lower_case |-> lc, ignore_symbols |-> <<"a">>,
      target_language |-> l,
      nemo_executable |-> NemoExecutable("~/anaconda3/envs/nemo/python.exe", ex),
      tokenizer |-> "spe", spe_type |-> "unigram"] :
        ec \in {"", "extra/*.txt"}, lc \in BOOLEAN, l \in {"", "armenian"}, ex \in BOOLEAN}

TokEntries == {[text |-> <<"a">>], [text |-> <<".", "A">>], [duration |-> 3]}

\* the last line of a file need not end with "\n"
CorpusFiles ==
    {<< <<"a", ".", "\n">> >>,
     << <<"A", "\n">>, <<":", "a">> >>}

\* document.txt as an earlier run may have left it
StaleDocuments == {<<>>, << <<"A", "\n">> >>}

\* mutant: the document is opened without truncating it
OpenedKeepingContent(content) == content

\* open(document_path, 'w')
OpenedForWriting(content) == <<>>

\* open(doc_txt_path, 'a')
OpenedForAppending(content) == content

\* the list get_command_to_run returns, by argument
Command(self) ==
    [executable |-> self.nemo_executable,
     script |-> ScriptPath(self.nemo_repo_path),
     data_file |-> DocumentPath(self.data_folder),
     vocab_size |-> self.vocab_size,
     data_root |-> self.data_folder,
     tokenizer |-> self.tokenizer,
     spe_type |-> self.spe_type,
     no_lower_case |-> self.lower_case]

InitTok ==
    /\ op = "CreateTokenizer"
    /\ cfg \in TokCfgs
    /\ pc = "idle"
    /\ manifest \in SeqsUpTo(TokEntries, MaxTokEntries)
    /\ files \in SeqsUpTo(CorpusFiles, MaxFiles)
    /\ doc \in StaleDocuments
    /\ writers = 0
    /\ fileno = 0
    /\ pos = 0
    /\ command = <<>>
    /\ input = EmptyEntry
    /\ out = <<>>
    /\ metrics = <<>>
    /\ err = NoError
    /\ pending = {}
    /\ inflight = {}
    /\ total = 0

TokFrame == UNCHANGED <<op, cfg, input, manifest, out, metrics, pending, inflight, total, files>>

\* process() -> get_command_to_run(): makedirs, document.txt opened with 'w',
\* the input manifest opened
OpenDocument ==
    /\ pc = "idle" /\ op = "CreateTokenizer"
    /\ doc' = OpenedForWriting(doc)
    /\ writers' = writers + 1
    /\ pos' = 1
    /\ pc' = "extracting"
    /\ UNCHANGED <<err, fileno, command>>
    /\ TokFrame

\* one line of the manifest: item['text'] written and flushed; a missing text
\* raises KeyError, the with blocks close the files and process() ends
ExtractLine ==
    /\ pc = "extracting" /\ pos <= Len(manifest)
    /\ IF Has(manifest[pos], "text")
       THEN /\ doc' = Append(doc, manifest[pos]["text"] \o <<"\n">>)
            /\ pos' = pos + 1
            /\ UNCHANGED <<pc, err, writers>>
       ELSE /\ err' = KeyError("text")
            /\ writers' = writers - 1
            /\ pc' = "failed"
            /\ UNCHANGED <<doc, pos>>
    /\ UNCHANGED <<fileno, command>>
    /\ TokFrame

\* the manifest is read: the with blocks close document.txt
CloseDocument ==
    /\ pc = "extracting" /\ pos > Len(manifest)
    /\ writers' = writers - 1
    /\ pc' = IF cfg.extra_corpus /= "" THEN "globbing" ELSE "command"
    /\ UNCHANGED <<doc, err, pos, fileno, command>>
    /\ TokFrame

\* insert_files_into_doc: glob(corpus), document.txt opened with 'a'
OpenForInsert ==
    /\ pc = "globbing"
    /\ doc' = OpenedForAppending(doc)
    /\ writers' = writers + 1
    /\ fileno' = 1
    /\ pos' = 1
    /\ pc' = "inserting"
    /\ UNCHANGED <<err, command>>
    /\ TokFrame

\* one line of a matched file written through filter_function, or the next file
InsertLine ==
    /\ pc = "inserting" /\ fileno <= Len(files)
    /\ IF pos <= Len(files[fileno])
       THEN /\ doc' = Append(doc, clear_text(files[fileno][pos], cfg.ignore_symbols,
                                             cfg.target_language))
            /\ pos' = pos + 1
            /\ UNCHANGED fileno
       ELSE /\ fileno' = fileno + 1
            /\ pos' = 1
            /\ UNCHANGED doc
    /\ UNCHANGED <<pc, err, writers, command>>
    /\ TokFrame

\* every matched file is read: the with block closes document.txt
CloseInsert ==
    /\ pc = "inserting" /\ fileno > Len(files)
    /\ writers' = writers - 1
    /\ pc' = "command"
    /\ UNCHANGED <<doc, err, pos, fileno, command>>
    /\ TokFrame

\* get_command_to_run returns the command, subprocess.run starts it
RunCommand ==
    /\ pc = "command"
    /\ command' = Command(cfg)
    /\ pc' = "started"
    /\ UNCHANGED <<doc, err, writers, pos, fileno>>
    /\ TokFrame

NextTok ==
    \/ OpenDocument
    \/ ExtractLine
    \/ CloseDocument
    \/ OpenForInsert
    \/ InsertLine
    \/ CloseInsert
    \/ RunCommand

SpecTok == InitTok /\ [][NextTok]_vars

-----------------------------------------------------------------------------
(* Claims about CreateTokenizer *)

\* the lines of the matched files from file k on, each through the transform
RECURSIVE ExtraLines(_)
ExtraLines(k) ==
    IF k > Len(files) THEN <<>>
    ELSE [n \in 1..Len(files[k]) |->
             clear_text(files[k][n], cfg.ignore_symbols, cfg.target_language)]
         \o ExtraLines(k + 1)

ExpectedCorpus ==
    [i \in 1..Len(manifest) |-> manifest[i]["text"] \o <<"\n">>]
        \o (IF cfg.extra_corpus /= "" THEN ExtraLines(1) ELSE <<>>)

Started == command /= <<>>

\* C13: when the tokenizer command is started document.txt is closed and holds
\* one line per manifest entry's text, in manifest order, followed (with an
\* extra_corpus) by every line of every matched file through the
\* symbol-stripping transform; it never has more than one writer; after a
\* failure of the corpus writing the command is not started
C13_CorpusBeforeCommand ==
    /\ writers <= 1
    /\ Started =>
          /\ writers = 0
          /\ err.kind = "none"
          /\ \A i \in 1..Len(manifest) : "text" \in DOMAIN manifest[i]
          /\ doc = ExpectedCorpus
    /\ (err.kind /= "none" \/ \E i \in 1..Len(manifest) : "text" \notin DOMAIN manifest[i]) =>
          ~Started

\* a document left by an earlier run, two manifest entries and two extra files
\* whose lines the transform changes
C13_Witness ==
    /\ Started /\ pc = "started"
    /\ cfg.extra_corpus /= ""
    /\ Len(manifest) = 2 /\ manifest[1] /= manifest[2]
    /\ Len(files) = 2 /\ files[1] /= files[2]
    /\ Len(doc) > 2
    /\ doc[3] /= files[1][1]
    /\ doc[1] = manifest[1]["text"] \o <<"\n">>

=============================================================================
